---- MODULE Spec2Model ----
(***************************************************************************)
(* Four-level page-table mapper of shared_lib/src/page_table.rs.           *)
(*                                                                         *)
(* A u64 is kept exactly, as six limbs, least significant first:           *)
(*   <<bits 0-11, bits 12-20, bits 21-29, bits 30-38, bits 39-47,          *)
(*     bits 48-63>>                                                        *)
(* so that every limb fits a machine integer of the checker while the      *)
(* arithmetic (and, or, add, sub) stays the 64-bit arithmetic of the code. *)
(***************************************************************************)
EXTENDS Integers, Sequences, FiniteSets, TLC

(***************************************************************************)
(* 64-bit words                                                            *)
(***************************************************************************)
Radix == <<4096, 512, 512, 512, 512, 65536>>

Zero == <<0, 0, 0, 0, 0, 0>>

RECURSIVE BitAnd(_, _)
BitAnd(a, b) ==
    IF a = 0 \/ b = 0 THEN 0
    ELSE (a % 2) * (b % 2) + 2 * BitAnd(a \div 2, b \div 2)

RECURSIVE BitOr(_, _)
BitOr(a, b) ==
    IF a = 0 THEN b
    ELSE IF b = 0 THEN a
    ELSE (IF (a % 2) + (b % 2) > 0 THEN 1 ELSE 0) + 2 * BitOr(a \div 2, b \div 2)

And64(a, b) ==
    <<BitAnd(a[1], b[1]), BitAnd(a[2], b[2]), BitAnd(a[3], b[3]),
      BitAnd(a[4], b[4]), BitAnd(a[5], b[5]), BitAnd(a[6], b[6])>>

Or64(a, b) ==
    <<BitOr(a[1], b[1]), BitOr(a[2], b[2]), BitOr(a[3], b[3]),
      BitOr(a[4], b[4]), BitOr(a[5], b[5]), BitOr(a[6], b[6])>>

\* u64 addition; the carry out of bit 63 is dropped
Add64(a, b) ==
    LET s1 == a[1] + b[1]
        s2 == a[2] + b[2] + (s1 \div Radix[1])
        s3 == a[3] + b[3] + (s2 \div Radix[2])
        s4 == a[4] + b[4] + (s3 \div Radix[3])
        s5 == a[5] + b[5] + (s4 \div Radix[4])
        s6 == a[6] + b[6] + (s5 \div Radix[5])
    IN  <<s1 % Radix[1], s2 % Radix[2], s3 % Radix[3], s4 % Radix[4],
          s5 % Radix[5], s6 % Radix[6]>>

\* u64 subtraction; the borrow out of bit 63 is dropped
Sub64(a, b) ==
    LET d1 == a[1] - b[1]
        d2 == a[2] - b[2] - (IF d1 < 0 THEN 1 ELSE 0)
        d3 == a[3] - b[3] - (IF d2 < 0 THEN 1 ELSE 0)
        d4 == a[4] - b[4] - (IF d3 < 0 THEN 1 ELSE 0)
        d5 == a[5] - b[5] - (IF d4 < 0 THEN 1 ELSE 0)
        d6 == a[6] - b[6] - (IF d5 < 0 THEN 1 ELSE 0)
    IN  <<d1 % Radix[1], d2 % Radix[2], d3 % Radix[3], d4 % Radix[4],
          d5 % Radix[5], d6 % Radix[6]>>

\* x % 4096
Mod4096(x) == x[1]

(***************************************************************************)
(* Program constants                                                       *)
(***************************************************************************)
ENTRY_COUNT == 512

\* 0x180_0000_0000 = 2^40 + 2^39
VIRT_MAPPING_OFFSET == <<0, 0, 0, 0, 3, 0>>

\* 0x000f_ffff_ffff_f000, the mask of PageTableEntry::addr
ADDR_MASK == <<0, 511, 511, 511, 511, 15>>

\* align_down with the mask of PageTableEntry::addr
ALIGN_MASK_of_addr == ADDR_MASK

\* 0xffff_ffff_ffff_f000, the mask of align_down
ALIGN_MASK == <<0, 511, 511, 511, 511, 65535>>

PRESENT == <<1, 0, 0, 0, 0, 0>>

WRITABLE == <<2, 0, 0, 0, 0, 0>>

USER_ACCESSIBLE == <<4, 0, 0, 0, 0, 0>>

BIT_11 == <<2048, 0, 0, 0, 0, 0>>

\* 1 << 52
BIT_52 == <<0, 0, 0, 0, 0, 16>>

\* 1 << 63
NO_EXECUTE == <<0, 0, 0, 0, 0, 32768>>

\* every bit PageTableFlags names: bits 0-11 and 52-63
FLAGS_ALL == <<4095, 0, 0, 0, 0, 65520>>

(***************************************************************************)
(* Address decomposition (crate::addr::VirtAddr)                           *)
(***************************************************************************)
p4_index(virt) == virt[5]

p3_index(virt) == virt[4]

p2_index(virt) == virt[3]

p1_index(virt) == virt[2]

(***************************************************************************)
(* PageTableEntry                                                          *)
(***************************************************************************)
PageTableEntry_new == Zero

set_addr(a, fl) == Or64(a, fl)

flags(entry) == And64(entry, FLAGS_ALL)

contains(fl, bit) == And64(fl, bit) = bit

is_present(entry) == contains(flags(entry), PRESENT)

addr(entry) == And64(entry, ADDR_MASK)

(***************************************************************************)
(* PageTable                                                               *)
(***************************************************************************)
\* A table is kept as the function of the slots that have been written; a slot
\* outside its domain still holds the entry the table was constructed with.
Slots == 0..(ENTRY_COUNT - 1)

PageTable_new == << >>

\* Index<u16>::index
index(table, i) == IF i \in DOMAIN table THEN table[i] ELSE PageTableEntry_new

\* an assignment through IndexMut<u16>::index_mut
index_mut(table, i, entry) == [j \in DOMAIN table \cup {i} |-> IF j = i THEN entry ELSE table[j]]

\* the present slots of a table (a slot that was never written holds
\* PageTableEntry::new(), which is not present)
PresentSlots(table) == {i \in DOMAIN table : is_present(table[i])}

\* clear() leaving the first slot as it is
clear_skips_first(table) ==
    [i \in Slots |-> IF i = 0 THEN index(table, i)
                     ELSE set_addr(Zero, And64(Zero, FLAGS_ALL))]

clear(table) == [i \in Slots |-> set_addr(Zero, And64(Zero, FLAGS_ALL))]

align_down(val) == And64(val, ALIGN_MASK)

align_down_u64(val) == And64(val, ALIGN_MASK)

(***************************************************************************)
(* Bounds and inputs                                                       *)
(***************************************************************************)
\* frames the frame supplier can hand out before it is exhausted
MaxTables == 4

\* the frame supplier grants at most this many tables within one call
MaxGrant == 3

\* physical frame number k of the pool the tables live in (0x200000 + k*0x1000)
FrameAddr(k) == <<0, k % ENTRY_COUNT, 1, 0, 0, 0>>

\* the caller's root (L4) table
ROOT == FrameAddr(0)

\* virtual addresses: 0x1000, 0x2000, 0x3000 (all three in one L1 table),
\*   0x4000_1000 (same L3 table only), 0x1001 (unaligned),
\*   0x0001_0000_0000_1000 (0x1000 with bit 48 set)
VA == <<0, 1, 0, 0, 0, 0>>

VB == <<0, 2, 0, 0, 0, 0>>

VC == <<0, 1, 0, 1, 0, 0>>

VU == <<1, 1, 0, 0, 0, 0>>

VW == <<0, 1, 0, 0, 0, 1>>

\* 0x3000
V3 == <<0, 3, 0, 0, 0, 0>>

VAddrs == {VA, VB, V3, VC, VU, VW}

\* physical addresses: 0x2000, 0x3000, 0x2001 (unaligned),
\*   0x0010_0000_0000_2000 (0x2000 with bit 52 set)
P2 == <<0, 2, 0, 0, 0, 0>>

P3 == <<0, 3, 0, 0, 0, 0>>

PU == <<1, 2, 0, 0, 0, 0>>

PH == <<0, 2, 0, 0, 0, 16>>

\* the (virt, phys) arguments the mapping operations are called with
Calls ==
    { <<VA, P2>>, <<VA, P3>>, <<VA, PH>>, <<VA, PU>>,
      <<VB, P3>>, <<VC, P2>>, <<VU, P2>> }

\* calls and pages of the runs with a translation cache; 0x3000 is also the
\* number of a physical frame
TlbCalls == { <<VA, P2>>, <<VA, P3>>, <<VB, P3>>, <<V3, P2>> }

TlbPages == {VA, VB, V3}

\* translations the cache of the processor holds
TlbCapacity == 2

\* offsets at which physical memory is visible to the mapper
Views == {Zero, VIRT_MAPPING_OFFSET}

\* the mapper and its caller: the tables, the frames handed out, the
\* translation cache, and the record of the calls
VARIABLES mem, used, tlb, installed, last

\* one PageTableEntry, one call of align_down, one PageTable on their own
VARIABLES pte, aligned, ptable

\* the processor as the interrupt handlers see it
VARIABLES cpu

\* the executor: its fields, the STOP flag, where run() stands and the id it
\* has popped, the interrupt flag of the processor, the interrupts raised and
\* not yet handled, the tasks whose waker an interrupt source holds, and the
\* tasks whose poll has returned Ready
VARIABLES tasks, task_queue, waker_cache, STOP, pc, task_id,
          interrupts_enabled, irq_pending, wakers, completed

executor_vars == <<tasks, task_queue, waker_cache, STOP, pc, task_id,
                   interrupts_enabled, irq_pending, wakers, completed>>

vars == <<mem, used, tlb, installed, last, pte, aligned, ptable, cpu, executor_vars>>

\* the kernel around the memory subsystem
kernel_vars == <<cpu, executor_vars>>

\* what a call of the mapper does not touch
beside_mapper == <<pte, aligned, ptable, kernel_vars>>

\* what an interrupt does not touch
memory_vars == <<mem, used, tlb, installed, last, pte, aligned, ptable>>

\* what the operations of an entry, of align_down and of a table do not touch
mapper_vars == <<mem, used, tlb, installed, last>>

(***************************************************************************)
(* Option<u64>                                                             *)
(***************************************************************************)
None == [some |-> FALSE, val |-> Zero]

Some(x) == [some |-> TRUE, val |-> x]

(***************************************************************************)
(* Raw pointers and the frame-supply capability                            *)
(***************************************************************************)
\* the table a raw pointer refers to: physical frame f is visible at f + w
\* for each w in Views
Deref(m, ptr) ==
    LET w == CHOOSE x \in Views : Sub64(ptr, x) \in DOMAIN m
    IN  Sub64(ptr, w)

\* an allocator that hands out pointers in the view `view`, has handed out
\* `n` frames so far and will grant `grant` more
Allocator(n, grant, view) == [used |-> n, grant |-> grant, view |-> view, calls |-> 0]

ERR_ALLOC == "out of memory"

allocate_page_table(m, a) ==
    IF a.grant = 0 \/ a.used >= MaxTables
    THEN [ok |-> FALSE, err |-> ERR_ALLOC, mem |-> m, ptr |-> Zero,
          alloc |-> [a EXCEPT !.calls = @ + 1]]
    ELSE LET f == FrameAddr(a.used + 1)
         IN  [ok |-> TRUE, err |-> "", mem |-> (f :> PageTable_new) @@ m,
              ptr |-> Add64(f, a.view),
              alloc |-> [a EXCEPT !.calls = @ + 1, !.used = @ + 1, !.grant = @ - 1]]

\* create_next_table asking the allocator for a table whether or not the
\* entry is present
create_next_table_always_allocates(m, tbl, idx, a, offset) ==
    LET r == allocate_page_table(m, a)
    IN  IF ~r.ok
        THEN [ok |-> FALSE, err |-> r.err, mem |-> m, alloc |-> r.alloc, table |-> tbl]
        ELSE [ok |-> TRUE, err |-> "",
              mem |-> [r.mem EXCEPT ![tbl] = index_mut(@, idx,
                          set_addr(Sub64(r.ptr, offset), Or64(PRESENT, WRITABLE)))],
              alloc |-> r.alloc, table |-> Deref(r.mem, r.ptr)]

\* create_next_table marking the entry writable before the table is allocated
create_next_table_partial(m, tbl, idx, a, offset) ==
    LET page_table_entry == index(m[tbl], idx)
    IN  IF contains(flags(page_table_entry), PRESENT)
        THEN [ok |-> TRUE, err |-> "", mem |-> m, alloc |-> a,
              table |-> Deref(m, Add64(addr(page_table_entry), offset))]
        ELSE LET r == allocate_page_table(m, a)
             IN  IF ~r.ok
                 THEN [ok |-> FALSE, err |-> r.err,
                       mem |-> [m EXCEPT ![tbl] = index_mut(@, idx, set_addr(Zero, WRITABLE))],
                       alloc |-> r.alloc, table |-> tbl]
                 ELSE [ok |-> TRUE, err |-> "",
                       mem |-> [r.mem EXCEPT ![tbl] = index_mut(@, idx,
                                   set_addr(Sub64(r.ptr, offset), Or64(PRESENT, WRITABLE)))],
                       alloc |-> r.alloc,
                       table |-> Deref(r.mem, r.ptr)]

create_next_table(m, tbl, idx, a, offset) ==
    LET page_table_entry == index(m[tbl], idx)
    IN  IF contains(flags(page_table_entry), PRESENT)
        THEN [ok |-> TRUE, err |-> "", mem |-> m, alloc |-> a,
              table |-> Deref(m, Add64(addr(page_table_entry), offset))]
        ELSE LET r == allocate_page_table(m, a)
             IN  IF ~r.ok
                 THEN [ok |-> FALSE, err |-> r.err, mem |-> m, alloc |-> r.alloc,
                       table |-> tbl]
                 ELSE [ok |-> TRUE, err |-> "",
                       mem |-> [r.mem EXCEPT ![tbl] = index_mut(@, idx,
                                   set_addr(Sub64(r.ptr, offset), Or64(PRESENT, WRITABLE)))],
                       alloc |-> r.alloc,
                       table |-> Deref(r.mem, r.ptr)]

(***************************************************************************)
(* Translation cache of the processor                                      *)
(***************************************************************************)
\* invlpg [x]: drops the cached translation of the page that contains x
invlpg(t, x) == {e \in t : e.page # align_down(x)}

(***************************************************************************)
(* Mapper                                                                  *)
(***************************************************************************)
CheckFrameIsFree == "CheckFrameIsFree"

Remapping == "Remapping"

ERR_VIRT == "Virtual address must be aligned!"

ERR_PHYS == "Physical address must be aligned!"

ERR_CONFLICT == "this virtual address already mapped to another frame"

Ret(res, m, a, t, br) == [result |-> res, mem |-> m, alloc |-> a, tlb |-> t, branch |-> br]

\* the leaf step overwriting a conflicting entry with one that is not present
map_l1_entry_unmaps(m, a, t, l1_table, virt, phys, mapping_mode) ==
    LET l1_entry == index(m[l1_table], p1_index(virt))
        written == [m EXCEPT ![l1_table] = index_mut(@, p1_index(virt),
                       set_addr(phys, Or64(PRESENT, WRITABLE)))]
        unmapped == [m EXCEPT ![l1_table] = index_mut(@, p1_index(virt),
                       set_addr(phys, WRITABLE))]
    IN  IF contains(flags(l1_entry), PRESENT)
        THEN IF addr(l1_entry) = phys
             THEN Ret("Ok", m, a, t, "same")
             ELSE IF mapping_mode = CheckFrameIsFree
                  THEN Ret(ERR_CONFLICT, m, a, t, "conflict")
                  ELSE Ret("Ok", unmapped, a, invlpg(t, phys), "overwrite")
        ELSE Ret("Ok", written, a, invlpg(t, phys), "fresh")

\* the leaf step rewriting, when remapping, an entry that already holds phys
map_l1_entry_rewrites_same(m, a, t, l1_table, virt, phys, mapping_mode) ==
    LET l1_entry == index(m[l1_table], p1_index(virt))
        written == [m EXCEPT ![l1_table] = index_mut(@, p1_index(virt),
                       set_addr(phys, Or64(PRESENT, WRITABLE)))]
        rewritten == [m EXCEPT ![l1_table] = index_mut(@, p1_index(virt),
                       set_addr(phys, PRESENT))]
    IN  IF contains(flags(l1_entry), PRESENT)
        THEN IF addr(l1_entry) = phys
             THEN IF mapping_mode = CheckFrameIsFree
                  THEN Ret("Ok", m, a, t, "same")
                  ELSE Ret("Ok", rewritten, a, t, "same")
             ELSE IF mapping_mode = CheckFrameIsFree
                  THEN Ret(ERR_CONFLICT, m, a, t, "conflict")
                  ELSE Ret("Ok", written, a, invlpg(t, phys), "overwrite")
        ELSE Ret("Ok", written, a, invlpg(t, phys), "fresh")

\* the leaf step writing its entry into an L1 table it has emptied
map_l1_entry_resets_table(m, a, t, l1_table, virt, phys, mapping_mode) ==
    LET l1_entry == index(m[l1_table], p1_index(virt))
        written == [m EXCEPT ![l1_table] = index_mut(PageTable_new, p1_index(virt),
                       set_addr(phys, Or64(PRESENT, WRITABLE)))]
    IN  IF contains(flags(l1_entry), PRESENT)
        THEN IF addr(l1_entry) = phys
             THEN Ret("Ok", m, a, t, "same")
             ELSE IF mapping_mode = CheckFrameIsFree
                  THEN Ret(ERR_CONFLICT, m, a, t, "conflict")
                  ELSE Ret("Ok", written, a, invlpg(t, phys), "overwrite")
        ELSE Ret("Ok", written, a, invlpg(t, phys), "fresh")

\* the leaf step overwriting a conflicting entry in either mode
map_l1_entry_overwrites(m, a, t, l1_table, virt, phys, mapping_mode) ==
    LET l1_entry == index(m[l1_table], p1_index(virt))
        written == [m EXCEPT ![l1_table] = index_mut(@, p1_index(virt),
                       set_addr(phys, Or64(PRESENT, WRITABLE)))]
    IN  IF contains(flags(l1_entry), PRESENT)
        THEN IF addr(l1_entry) = phys
             THEN Ret("Ok", m, a, t, "same")
             ELSE Ret("Ok", written, a, invlpg(t, phys), "overwrite")
        ELSE Ret("Ok", written, a, invlpg(t, phys), "fresh")

\* the leaf step of map_address_impl: l1_entry and what becomes of it
map_l1_entry(m, a, t, l1_table, virt, phys, mapping_mode) ==
    LET l1_entry == index(m[l1_table], p1_index(virt))
        written == [m EXCEPT ![l1_table] = index_mut(@, p1_index(virt),
                       set_addr(phys, Or64(PRESENT, WRITABLE)))]
    IN  IF contains(flags(l1_entry), PRESENT)
        THEN IF addr(l1_entry) = phys
             THEN Ret("Ok", m, a, t, "same")
             ELSE IF mapping_mode = CheckFrameIsFree
                  THEN Ret(ERR_CONFLICT, m, a, t, "conflict")
                  ELSE Ret("Ok", written, a, invlpg(t, phys), "overwrite")
        ELSE Ret("Ok", written, a, invlpg(t, phys), "fresh")

\* map_address_impl without the check of phys
map_address_impl_unchecked_phys(m, a, t, l4_page_table, virt, phys, mapping_mode, offset) ==
    IF Mod4096(virt) # 0 THEN Ret(ERR_VIRT, m, a, t, "align")
    ELSE
    LET l3 == create_next_table(m, l4_page_table, p4_index(virt), a, offset)
    IN  IF ~l3.ok THEN Ret(l3.err, l3.mem, l3.alloc, t, "alloc_l3")
        ELSE
        LET l2 == create_next_table(l3.mem, l3.table, p3_index(virt), l3.alloc, offset)
        IN  IF ~l2.ok THEN Ret(l2.err, l2.mem, l2.alloc, t, "alloc_l2")
            ELSE
            LET l1 == create_next_table(l2.mem, l2.table, p2_index(virt), l2.alloc, offset)
            IN  IF ~l1.ok THEN Ret(l1.err, l1.mem, l1.alloc, t, "alloc_l1")
                ELSE map_l1_entry(l1.mem, l1.alloc, t, l1.table, virt, phys, mapping_mode)

map_address_impl(m, a, t, l4_page_table, virt, phys, mapping_mode, offset) ==
    IF Mod4096(virt) # 0 THEN Ret(ERR_VIRT, m, a, t, "align")
    ELSE IF Mod4096(phys) # 0 THEN Ret(ERR_PHYS, m, a, t, "align")
    ELSE
    LET l3 == create_next_table(m, l4_page_table, p4_index(virt), a, offset)
    IN  IF ~l3.ok THEN Ret(l3.err, l3.mem, l3.alloc, t, "alloc_l3")
        ELSE
        LET l2 == create_next_table(l3.mem, l3.table, p3_index(virt), l3.alloc, offset)
        IN  IF ~l2.ok THEN Ret(l2.err, l2.mem, l2.alloc, t, "alloc_l2")
            ELSE
            LET l1 == create_next_table(l2.mem, l2.table, p2_index(virt), l2.alloc, offset)
            IN  IF ~l1.ok THEN Ret(l1.err, l1.mem, l1.alloc, t, "alloc_l1")
                ELSE map_l1_entry(l1.mem, l1.alloc, t, l1.table, virt, phys, mapping_mode)

map_address(m, a, t, l4_page_table, virt, phys) ==
    map_address_impl(m, a, t, l4_page_table, virt, phys, CheckFrameIsFree, Zero)

remap_address(m, a, t, l4_page_table, virt, phys) ==
    map_address_impl(m, a, t, l4_page_table, virt, phys, Remapping, Zero)

map_address_with_offset(m, a, t, l4_page_table, virt, phys, offset) ==
    map_address_impl(m, a, t, l4_page_table, virt, phys, CheckFrameIsFree, offset)

\* get_physical_address without the presence check of the leaf entry
get_physical_address_unchecked_l1(m, l4_page_table, virt) ==
    LET l4_entry == index(m[l4_page_table], p4_index(virt))
    IN  IF ~contains(flags(l4_entry), PRESENT) THEN None
        ELSE
        LET l3_table == Deref(m, addr(l4_entry))
            l3_entry == index(m[l3_table], p3_index(virt))
        IN  IF ~contains(flags(l3_entry), PRESENT) THEN None
            ELSE
            LET l2_table == Deref(m, addr(l3_entry))
                l2_entry == index(m[l2_table], p2_index(virt))
            IN  IF ~contains(flags(l2_entry), PRESENT) THEN None
                ELSE
                LET l1_table == Deref(m, addr(l2_entry))
                    l1_entry == index(m[l1_table], p1_index(virt))
                IN  Some(addr(l1_entry))

get_physical_address(m, l4_page_table, virt) ==
    LET l4_entry == index(m[l4_page_table], p4_index(virt))
    IN  IF ~contains(flags(l4_entry), PRESENT) THEN None
        ELSE
        LET l3_table == Deref(m, addr(l4_entry))
            l3_entry == index(m[l3_table], p3_index(virt))
        IN  IF ~contains(flags(l3_entry), PRESENT) THEN None
            ELSE
            LET l2_table == Deref(m, addr(l3_entry))
                l2_entry == index(m[l2_table], p2_index(virt))
            IN  IF ~contains(flags(l2_entry), PRESENT) THEN None
                ELSE
                LET l1_table == Deref(m, addr(l2_entry))
                    l1_entry == index(m[l1_table], p1_index(virt))
                IN  IF ~contains(flags(l1_entry), PRESENT) THEN None
                    ELSE Some(addr(l1_entry))

(***************************************************************************)
(* State machine: a caller that owns the root table and calls the public   *)
(* operations one after the other                                          *)
(***************************************************************************)
InitMapper ==
    /\ mem = (ROOT :> PageTable_new)
    /\ used = 0
    /\ tlb = {}
    /\ installed = [v \in VAddrs |-> None]
    /\ last = [op |-> "none", virt |-> Zero, phys |-> Zero, offset |-> Zero,
               result |-> "none", val |-> Zero, allocs |-> 0, changed |-> FALSE,
               was |-> None, prior |-> None, branch |-> "none"]

\* an entry and a table as constructed, and no call of align_down yet
InitEntry ==
    pte = [entry |-> PageTableEntry_new, op |-> "new", addr |-> Zero, flags |-> Zero]

InitAligned ==
    aligned = [op |-> "none", val |-> Zero, out |-> Zero]

InitTable ==
    ptable = [table |-> PageTable_new, op |-> "new", was |-> {}]

\* the kernel at its entry, before init_idt
InitCpu ==
    cpu = [mode |-> "kernel", rip |-> 0, trapped |-> 0, saved |-> 0,
           idt_loaded |-> FALSE]

\* Executor::new(), before the first spawn
InitExecutor ==
    /\ tasks = {}
    /\ task_queue = << >>
    /\ waker_cache = {}
    /\ STOP = FALSE
    /\ pc = "setup"
    /\ task_id = 0
    /\ interrupts_enabled = TRUE
    /\ irq_pending = {}
    /\ wakers = {}
    /\ completed = {}

InitKernel == InitCpu /\ InitExecutor

Init ==
    /\ InitMapper
    /\ InitEntry
    /\ InitAligned
    /\ InitTable
    /\ InitKernel

\* the effect of one call of a mapping operation whose outcome is r;
\* installed and last only record the call, its arguments and its outcome
Returned(op, virt, phys, offset, r) ==
    /\ mem' = r.mem
    /\ used' = r.alloc.used
    /\ tlb' = r.tlb
    /\ installed' = IF r.result = "Ok"
                    THEN [installed EXCEPT ![virt] = Some(phys)]
                    ELSE installed
    /\ last' = [op |-> op, virt |-> virt, phys |-> phys, offset |-> offset,
                result |-> r.result, val |-> Zero, allocs |-> r.alloc.calls,
                changed |-> (r.mem # mem),
                was |-> get_physical_address(mem, ROOT, virt),
                prior |-> installed[virt], branch |-> r.branch]
    /\ UNCHANGED beside_mapper

MapAddress(virt, phys, grant) ==
    \E r \in {map_address(mem, Allocator(used, grant, Zero), tlb, ROOT, virt, phys)} :
        Returned("map_address", virt, phys, Zero, r)

RemapAddress(virt, phys, grant) ==
    \E r \in {remap_address(mem, Allocator(used, grant, Zero), tlb, ROOT, virt, phys)} :
        Returned("remap_address", virt, phys, Zero, r)

\* the caller passes the offset at which the tables of its allocator are
\* visible to it (the contract of the unsafe function)
MapAddressWithOffset(virt, phys, grant, offset) ==
    \E r \in {map_address_with_offset(mem, Allocator(used, grant, offset), tlb, ROOT,
                                      virt, phys, offset)} :
        Returned("map_address_with_offset", virt, phys, offset, r)

\* a translation that creates the L3 table it does not find
GetPhysicalAddress_creates(virt) ==
    \E l3 \in {create_next_table(mem, ROOT, p4_index(virt), Allocator(used, 1, Zero), Zero)} :
        LET r == get_physical_address(l3.mem, ROOT, virt)
        IN  /\ mem' = l3.mem
            /\ used' = l3.alloc.used
            /\ last' = [op |-> "get_physical_address", virt |-> virt, phys |-> Zero,
                        offset |-> Zero,
                        result |-> IF r.some THEN "Some" ELSE "None", val |-> r.val,
                        allocs |-> l3.alloc.calls, changed |-> (l3.mem # mem), was |-> r,
                        prior |-> installed[virt], branch |-> "none"]
            /\ UNCHANGED <<tlb, installed>>
            /\ UNCHANGED beside_mapper

GetPhysicalAddress(virt) ==
    LET r == get_physical_address(mem, ROOT, virt)
    IN  /\ last' = [op |-> "get_physical_address", virt |-> virt, phys |-> Zero,
                    offset |-> Zero,
                    result |-> IF r.some THEN "Some" ELSE "None", val |-> r.val,
                    allocs |-> 0, changed |-> FALSE, was |-> r,
                    prior |-> installed[virt], branch |-> "none"]
        /\ UNCHANGED <<mem, used, tlb, installed>>
        /\ UNCHANGED beside_mapper

\* the processor touches page virt, misses the translation cache, walks the
\* tables and caches what it finds
TlbFill(virt) ==
    LET r == get_physical_address(mem, ROOT, virt)
    IN  /\ Mod4096(virt) = 0
        /\ r.some
        /\ Cardinality(tlb) < TlbCapacity
        /\ \A e \in tlb : e.page # virt
        /\ tlb' = tlb \cup {[page |-> virt, frame |-> r.val]}
        /\ UNCHANGED <<mem, used, installed, last>>
        /\ UNCHANGED beside_mapper

Next ==
    \/ \E c \in Calls, grant \in 0..MaxGrant : MapAddress(c[1], c[2], grant)
    \/ \E c \in Calls, grant \in 0..MaxGrant : RemapAddress(c[1], c[2], grant)
    \/ \E c \in Calls, grant \in 0..MaxGrant :
           MapAddressWithOffset(c[1], c[2], grant, VIRT_MAPPING_OFFSET)
    \/ \E virt \in VAddrs : GetPhysicalAddress(virt)

Spec == Init /\ [][Next]_vars

\* the same caller on a processor that caches translations
NextTlb ==
    \/ \E c \in TlbCalls : MapAddress(c[1], c[2], MaxGrant)
    \/ \E c \in TlbCalls : RemapAddress(c[1], c[2], MaxGrant)
    \/ \E c \in TlbCalls : MapAddressWithOffset(c[1], c[2], MaxGrant, VIRT_MAPPING_OFFSET)
    \/ \E virt \in TlbPages : GetPhysicalAddress(virt)
    \/ \E virt \in TlbPages : TlbFill(virt)

SpecTlb == Init /\ [][NextTlb]_vars

(***************************************************************************)
(* One PageTableEntry: set_addr on an entry of any previous content        *)
(***************************************************************************)
RECURSIVE OrAll(_)
OrAll(S) == IF S = {} THEN Zero
            ELSE LET x == CHOOSE y \in S : TRUE IN Or64(x, OrAll(S \ {x}))

\* flag sets: every union of six of the named flags
FlagSets == {OrAll(S) : S \in SUBSET {PRESENT, WRITABLE, USER_ACCESSIBLE,
                                       BIT_11, BIT_52, NO_EXECUTE}}

\* 4096-aligned frame addresses: 0, 0x2000, 0x3000, 0x0001_0000_0000_0000,
\* the largest one of 52 bits, and 0x0010_0000_0000_2000
EntryAddrs == {Zero, P2, P3, <<0, 0, 0, 0, 0, 1>>, ADDR_MASK, PH}

\* previous contents of the entry
PrevEntries == {PageTableEntry_new, set_addr(P3, Or64(PRESENT, WRITABLE)),
                set_addr(ADDR_MASK, FLAGS_ALL)}

SetAddr(a, fl) ==
    /\ pte' = [entry |-> set_addr(a, fl), op |-> "set_addr", addr |-> a, flags |-> fl]
    /\ UNCHANGED <<mapper_vars, aligned, ptable, kernel_vars>>

InitEntryAny ==
    /\ InitMapper
    /\ pte \in {[entry |-> e, op |-> "new", addr |-> Zero, flags |-> Zero] : e \in PrevEntries}
    /\ InitAligned
    /\ InitTable
    /\ InitKernel

NextEntry == \E a \in EntryAddrs, fl \in FlagSets : SetAddr(a, fl)

SpecEntry == InitEntryAny /\ [][NextEntry]_vars

(***************************************************************************)
(* align_down and align_down_u64 on their own                              *)
(***************************************************************************)
\* addresses 4096*k + r: r is 0, 1, 2048 or 4095 and k has its lowest, its
\* highest and its middle bits set or clear
AlignInputs ==
    {<<r, i1, 0, 0, i4, hi>> : r \in {0, 1, 2048, 4095}, i1 \in {0, 1, 511},
                               i4 \in {0, 511}, hi \in {0, 1, 65535}}

AlignDown(val) ==
    /\ aligned' = [op |-> "align_down", val |-> val, out |-> align_down(val)]
    /\ UNCHANGED <<mapper_vars, pte, ptable, kernel_vars>>

AlignDownU64(val) ==
    /\ aligned' = [op |-> "align_down_u64", val |-> val, out |-> align_down_u64(val)]
    /\ UNCHANGED <<mapper_vars, pte, ptable, kernel_vars>>

NextAligned ==
    \/ \E val \in AlignInputs : AlignDown(val)
    \/ \E val \in AlignInputs : AlignDownU64(val)

SpecAligned == Init /\ [][NextAligned]_vars

(***************************************************************************)
(* One PageTable: entries written through IndexMut, and clear()            *)
(***************************************************************************)
TableSlots == {0, 1, ENTRY_COUNT - 1}

TableEntries == {set_addr(a, fl) : a \in {P2, ADDR_MASK},
                                   fl \in {Zero, Or64(PRESENT, WRITABLE), FLAGS_ALL}}

\* table[i] = entry
SetEntry(i, entry) ==
    /\ ptable' = [table |-> index_mut(ptable.table, i, entry), op |-> "set",
                  was |-> PresentSlots(ptable.table)]
    /\ UNCHANGED <<mapper_vars, pte, aligned, kernel_vars>>

Clear ==
    /\ ptable' = [table |-> clear(ptable.table), op |-> "clear",
                  was |-> PresentSlots(ptable.table)]
    /\ UNCHANGED <<mapper_vars, pte, aligned, kernel_vars>>

NextTable ==
    \/ \E i \in TableSlots, entry \in TableEntries : SetEntry(i, entry)
    \/ Clear

SpecTable == Init /\ [][NextTable]_vars

(***************************************************************************)
(* Interrupts: the kernel runs instruction after instruction; an exception *)
(* or an interrupt enters the handler the IDT names for it                 *)
(***************************************************************************)
\* instructions the kernel executes
MaxRip == 8

\* the handlers of the IDT
IDT == [breakpoint |-> "breakpoint_handler",
        double_fault |-> "double_fault_handler",
        general_protection_fault |-> "general_protection_fault_handler",
        Timer |-> "timer_interrupt_handler",
        Keyboard |-> "keyboard_interrupt_handler",
        page_fault |-> "page_fault_handler"]

\* init_idt
InitIdt ==
    /\ cpu.mode = "kernel" /\ cpu.rip < MaxRip /\ ~cpu.idt_loaded
    /\ cpu' = [cpu EXCEPT !.idt_loaded = TRUE, !.rip = @ + 1]
    /\ UNCHANGED <<memory_vars, executor_vars>>

\* an instruction that raises nothing
Step ==
    /\ cpu.mode = "kernel" /\ cpu.rip < MaxRip
    /\ cpu' = [cpu EXCEPT !.rip = @ + 1]
    /\ UNCHANGED <<memory_vars, executor_vars>>

\* the processor enters the handler of vector, to return to return_to; with
\* no IDT loaded it finds no handler and resets
Deliver(vector, return_to) ==
    /\ cpu.mode = "kernel" /\ cpu.rip < MaxRip
    /\ cpu' = IF cpu.idt_loaded
              THEN [cpu EXCEPT !.mode = IDT[vector], !.trapped = cpu.rip,
                               !.saved = return_to]
              ELSE [cpu EXCEPT !.mode = "reset", !.trapped = cpu.rip]
    /\ UNCHANGED <<memory_vars, executor_vars>>

\* int3 is a trap: the saved rip is that of the next instruction
Int3 == Deliver("breakpoint", cpu.rip + 1)

\* a fault saves the rip of the instruction that raised it
Fault(vector) == Deliver(vector, cpu.rip)

\* an interrupt of the PIC arrives before the instruction at rip
Interrupt(vector) == Deliver(vector, cpu.rip)

\* a handler that returns: iretq to the saved rip
Iretq(handler) ==
    /\ cpu.mode = handler
    /\ cpu' = [cpu EXCEPT !.mode = "kernel", !.rip = cpu.saved]
    /\ UNCHANGED <<memory_vars, executor_vars>>

\* a breakpoint handler that panics as the double-fault handler does
breakpoint_handler_panics ==
    /\ cpu.mode = "breakpoint_handler"
    /\ cpu' = [cpu EXCEPT !.mode = "panicked"]
    /\ UNCHANGED <<memory_vars, executor_vars>>

\* logs and returns
breakpoint_handler == Iretq("breakpoint_handler")

double_fault_handler ==
    /\ cpu.mode = "double_fault_handler"
    /\ cpu' = [cpu EXCEPT !.mode = "panicked"]
    /\ UNCHANGED <<memory_vars, executor_vars>>

general_protection_fault_handler == Iretq("general_protection_fault_handler")

timer_interrupt_handler == Iretq("timer_interrupt_handler")

keyboard_interrupt_handler == Iretq("keyboard_interrupt_handler")

\* logs, then halts in a loop: an interrupt that ends one hlt leads to the next
page_fault_handler ==
    /\ cpu.mode \in {"page_fault_handler", "page_fault_hlt"}
    /\ cpu' = [cpu EXCEPT !.mode = "page_fault_hlt"]
    /\ UNCHANGED <<memory_vars, executor_vars>>

NextIdt ==
    \/ InitIdt
    \/ Step
    \/ Int3
    \/ \E vector \in {"double_fault", "general_protection_fault", "page_fault"} :
           Fault(vector)
    \/ \E vector \in {"Timer", "Keyboard"} : Interrupt(vector)
    \/ breakpoint_handler
    \/ double_fault_handler
    \/ general_protection_fault_handler
    \/ timer_interrupt_handler
    \/ keyboard_interrupt_handler
    \/ page_fault_handler

\* the processor goes on executing the handler it has entered
SpecIdt == Init /\ [][NextIdt]_vars /\ WF_vars(breakpoint_handler)

(***************************************************************************)
(* Executor: spawn, then run() on one processor whose interrupt handlers   *)
(* wake tasks through the wakers the tasks have handed out                 *)
(***************************************************************************)
\* tasks that are spawned
MaxTasks == 2

\* ids in the queue and on their way into it through a raised interrupt
MaxQueue == 3

\* ArrayQueue::new(100)
QUEUE_CAPACITY == 100

TaskIds == 1..MaxTasks

\* what is left to touch for a step of the executor
beside_executor == <<memory_vars, cpu>>

\* ArrayQueue::push
push(queue, id) ==
    IF Len(queue) < QUEUE_CAPACITY
    THEN [ok |-> TRUE, queue |-> Append(queue, id)]
    ELSE [ok |-> FALSE, queue |-> queue]

\* ids the queue holds or is about to receive from a raised interrupt
Produced == Len(task_queue) + Cardinality(irq_pending \ {0})

Spawn(id) ==
    /\ pc = "setup"
    /\ Produced < MaxQueue
    /\ IF id \in tasks
       THEN pc' = "panicked" /\ UNCHANGED <<tasks, task_queue>>
       ELSE /\ tasks' = tasks \cup {id}
            /\ task_queue' = push(task_queue, id).queue
            /\ pc' = IF push(task_queue, id).ok THEN pc ELSE "panicked"
    /\ UNCHANGED <<waker_cache, STOP, task_id, interrupts_enabled, irq_pending,
                   wakers, completed, beside_executor>>

\* the call of run()
Run ==
    /\ pc = "setup"
    /\ pc' = "run"
    /\ UNCHANGED <<tasks, task_queue, waker_cache, STOP, task_id, interrupts_enabled,
                   irq_pending, wakers, completed, beside_executor>>

\* while !STOP.load(Relaxed)
LoadStop ==
    /\ pc = "run"
    /\ pc' = IF STOP THEN "returned" ELSE "pop"
    /\ UNCHANGED <<tasks, task_queue, waker_cache, STOP, task_id, interrupts_enabled,
                   irq_pending, wakers, completed, beside_executor>>

\* run_ready_tasks taking the id pushed last
Pop_takes_last ==
    /\ pc = "pop"
    /\ IF task_queue = << >>
       THEN pc' = "cli" /\ UNCHANGED <<task_queue, task_id, waker_cache>>
       ELSE /\ task_queue' = SubSeq(task_queue, 1, Len(task_queue) - 1)
            /\ task_id' = task_queue[Len(task_queue)]
            /\ IF task_queue[Len(task_queue)] \in tasks
               THEN /\ pc' = "poll"
                    /\ waker_cache' = waker_cache \cup {task_queue[Len(task_queue)]}
               ELSE pc' = "continue" /\ UNCHANGED waker_cache
    /\ UNCHANGED <<tasks, STOP, interrupts_enabled, irq_pending, wakers, completed,
                   beside_executor>>

\* while let Some(task_id) = self.task_queue.pop(), up to task.poll
Pop ==
    /\ pc = "pop"
    /\ IF task_queue = << >>
       THEN pc' = "cli" /\ UNCHANGED <<task_queue, task_id, waker_cache>>
       ELSE /\ task_queue' = Tail(task_queue)
            /\ task_id' = Head(task_queue)
            /\ IF Head(task_queue) \in tasks
               THEN pc' = "poll" /\ waker_cache' = waker_cache \cup {Head(task_queue)}
               ELSE pc' = "continue" /\ UNCHANGED waker_cache
    /\ UNCHANGED <<tasks, STOP, interrupts_enabled, irq_pending, wakers, completed,
                   beside_executor>>

\* None => continue
Continue ==
    /\ pc = "continue"
    /\ pc' = "pop"
    /\ UNCHANGED <<tasks, task_queue, waker_cache, STOP, task_id, interrupts_enabled,
                   irq_pending, wakers, completed, beside_executor>>

\* task.poll returning Ready without the task being removed
Poll_keeps_task(outcome, wake, register) ==
    /\ pc = "poll"
    /\ wake => Produced < MaxQueue
    /\ task_queue' = IF wake THEN push(task_queue, task_id).queue ELSE task_queue
    /\ wakers' = IF register THEN wakers \cup {task_id} ELSE wakers
    /\ completed' = IF outcome = "Ready" THEN completed \cup {task_id} ELSE completed
    /\ pc' = IF wake /\ ~push(task_queue, task_id).ok THEN "panicked" ELSE "pop"
    /\ UNCHANGED <<tasks, waker_cache, STOP, task_id, interrupts_enabled, irq_pending,
                   beside_executor>>

\* task.poll(&mut context) and the match on what it returns; while it runs
\* the task may wake itself and may hand a clone of its waker to an
\* interrupt source
Poll(outcome, wake, register) ==
    /\ pc = "poll"
    /\ wake => Produced < MaxQueue
    /\ task_queue' = IF wake THEN push(task_queue, task_id).queue ELSE task_queue
    /\ wakers' = IF register THEN wakers \cup {task_id} ELSE wakers
    /\ IF outcome = "Ready"
       THEN /\ tasks' = tasks \ {task_id}
            /\ waker_cache' = waker_cache \ {task_id}
            /\ completed' = completed \cup {task_id}
       ELSE UNCHANGED <<tasks, waker_cache, completed>>
    /\ pc' = IF wake /\ ~push(task_queue, task_id).ok THEN "panicked" ELSE "pop"
    /\ UNCHANGED <<STOP, task_id, interrupts_enabled, irq_pending, beside_executor>>

\* asm!("cli")
Cli ==
    /\ pc = "cli"
    /\ interrupts_enabled' = FALSE
    /\ pc' = "is_empty"
    /\ UNCHANGED <<tasks, task_queue, waker_cache, STOP, task_id, irq_pending, wakers,
                   completed, beside_executor>>

\* if self.task_queue.is_empty()
IsEmpty ==
    /\ pc = "is_empty"
    /\ pc' = IF task_queue = << >> THEN "sti_hlt" ELSE "sti"
    /\ UNCHANGED <<tasks, task_queue, waker_cache, STOP, task_id, interrupts_enabled,
                   irq_pending, wakers, completed, beside_executor>>

\* sti and hlt with a window between them: the handlers of the pending
\* interrupts run after the sti, and the hlt comes after they have returned
StiHlt_with_window ==
    /\ pc = "sti_hlt"
    /\ interrupts_enabled' = TRUE
    /\ irq_pending' = {}
    /\ task_queue' = IF irq_pending \ {0} = {} THEN task_queue
                     ELSE Append(task_queue, CHOOSE id \in irq_pending \ {0} : TRUE)
    /\ pc' = "hlt"
    /\ UNCHANGED <<tasks, waker_cache, STOP, task_id, wakers, completed, beside_executor>>

\* asm!("sti; hlt"): sti takes effect after the instruction that follows it,
\* so that no interrupt is taken between the two
StiHlt ==
    /\ pc = "sti_hlt"
    /\ interrupts_enabled' = TRUE
    /\ pc' = "hlt"
    /\ UNCHANGED <<tasks, task_queue, waker_cache, STOP, task_id, irq_pending, wakers,
                   completed, beside_executor>>

\* asm!("sti")
Sti ==
    /\ pc = "sti"
    /\ interrupts_enabled' = TRUE
    /\ pc' = "run"
    /\ UNCHANGED <<tasks, task_queue, waker_cache, STOP, task_id, irq_pending, wakers,
                   completed, beside_executor>>

\* a device raises an interrupt whose handler will wake task id (0: a
\* handler that wakes no task); it stays pending while interrupts are off
RaiseInterrupt(id) ==
    /\ pc \notin {"setup", "returned", "panicked"}
    /\ id \notin irq_pending
    /\ id # 0 => (id \in wakers /\ Produced < MaxQueue)
    /\ irq_pending' = irq_pending \cup {id}
    /\ UNCHANGED <<tasks, task_queue, waker_cache, STOP, pc, task_id, interrupts_enabled,
                   wakers, completed, beside_executor>>

\* the handler of a pending interrupt runs between two instructions of the
\* executor, calls wake on the waker it holds and returns; it ends a hlt
WakeFromInterrupt(id) ==
    /\ interrupts_enabled
    /\ id \in irq_pending
    /\ pc \notin {"returned", "panicked"}
    /\ irq_pending' = irq_pending \ {id}
    /\ task_queue' = IF id # 0 THEN push(task_queue, id).queue ELSE task_queue
    /\ pc' = IF id # 0 /\ ~push(task_queue, id).ok THEN "panicked"
             ELSE IF pc = "hlt" THEN "run" ELSE pc
    /\ UNCHANGED <<tasks, waker_cache, STOP, task_id, interrupts_enabled, wakers,
                   completed, beside_executor>>

\* a task or a handler stores true into STOP
StoreStop ==
    /\ pc \in {"poll", "pop"}
    /\ ~STOP
    /\ STOP' = TRUE
    /\ UNCHANGED <<tasks, task_queue, waker_cache, pc, task_id, interrupts_enabled,
                   irq_pending, wakers, completed, beside_executor>>

NextExecutor ==
    \/ \E id \in TaskIds : Spawn(id)
    \/ Run
    \/ LoadStop
    \/ Pop
    \/ Continue
    \/ \E outcome \in {"Ready", "Pending"}, wake \in BOOLEAN, register \in BOOLEAN :
           Poll(outcome, wake, register)
    \/ Cli
    \/ IsEmpty
    \/ StiHlt
    \/ Sti
    \/ \E id \in 0..MaxTasks : RaiseInterrupt(id)
    \/ \E id \in 0..MaxTasks : WakeFromInterrupt(id)
    \/ StoreStop

SpecExecutor == Init /\ [][NextExecutor]_vars

\* the instructions of run(): the processor goes on executing them, and
\* every poll returns
ExecutorStep ==
    \/ LoadStop
    \/ Pop
    \/ Continue
    \/ \E outcome \in {"Ready", "Pending"}, wake \in BOOLEAN, register \in BOOLEAN :
           Poll(outcome, wake, register)
    \/ Cli
    \/ IsEmpty
    \/ StiHlt
    \/ Sti

\* run() on a processor that goes on executing and takes a pending interrupt
\* once interrupts are enabled
SpecExecutorFair ==
    /\ Init
    /\ [][NextExecutor]_vars
    /\ WF_vars(ExecutorStep)
    /\ WF_vars(\E id \in 0..MaxTasks : WakeFromInterrupt(id))

(***************************************************************************)
(* Vocabulary of the properties                                            *)
(***************************************************************************)
Translate(v) == get_physical_address(mem, ROOT, v)

Aligned(x) == x[1] = 0

MapOps == {"map_address", "map_address_with_offset", "remap_address"}

AllocFailed(branch) == branch \in {"alloc_l3", "alloc_l2", "alloc_l1"}

Indices(v) == <<p4_index(v), p3_index(v), p2_index(v), p1_index(v)>>

\* the index of v into the n-th table of its path (1 = root)
PathIndex(v, n) == Indices(v)[n]

\* the tables on the path of v, from the root down to the first absent entry
Path(m, v) ==
    LET e4 == index(m[ROOT], p4_index(v))
    IN  IF ~is_present(e4) THEN <<ROOT>>
        ELSE
        LET t3 == Deref(m, addr(e4))
            e3 == index(m[t3], p3_index(v))
        IN  IF ~is_present(e3) THEN <<ROOT, t3>>
            ELSE
            LET t2 == Deref(m, addr(e3))
                e2 == index(m[t2], p2_index(v))
            IN  IF ~is_present(e2) THEN <<ROOT, t3, t2>>
                ELSE <<ROOT, t3, t2, Deref(m, addr(e2))>>

(***************************************************************************)
(* C1: whenever map_address returned Ok for (v, p), get_physical_address   *)
(* of v returns Some(p), the very p that was passed in.                    *)
(***************************************************************************)
C1_InstallThenTranslate ==
    (last.op = "map_address" /\ last.result = "Ok")
        => Translate(last.virt) = Some(last.phys)

(***************************************************************************)
(* C2: map_address of an aligned p2 on a page that translates to p # p2    *)
(* returns the conflicting-mapping error, changes no table, and the page   *)
(* still translates to p.                                                  *)
(***************************************************************************)
C2_StrictConflict ==
    (/\ last.op = "map_address"
     /\ Aligned(last.virt) /\ Aligned(last.phys)
     /\ last.was.some /\ last.was.val # last.phys)
        => (/\ last.result = ERR_CONFLICT
            /\ ~last.changed
            /\ Translate(last.virt) = last.was)

C2_Witness ==
    /\ last.op = "map_address" /\ last.branch = "conflict"
    /\ last.was = Some(P2) /\ last.phys = P3

(***************************************************************************)
(* C3: map_address(v, p) called again after a successful install of the    *)
(* same (v, p) returns Ok and leaves every table as it was.                *)
(***************************************************************************)
C3_IdempotentInstall ==
    (last.op = "map_address" /\ last.prior = Some(last.phys))
        => (last.result = "Ok" /\ ~last.changed)

(***************************************************************************)
(* C4: remap_address of an aligned p2 on a page that translates to p # p2  *)
(* returns Ok and the page then translates to p2.                          *)
(***************************************************************************)
C4_RemapOverwrites ==
    (/\ last.op = "remap_address"
     /\ Aligned(last.virt) /\ Aligned(last.phys)
     /\ last.was.some /\ last.was.val # last.phys)
        => (last.result = "Ok" /\ Translate(last.virt) = Some(last.phys))

(***************************************************************************)
(* C5: every operation called with an unaligned virtual address returns    *)
(* the alignment error and changes no table.                               *)
(***************************************************************************)
C5_UnalignedVirtRejected ==
    (last.op # "none" /\ ~Aligned(last.virt))
        => (last.result = ERR_VIRT /\ ~last.changed)

(***************************************************************************)
(* C6: a mapping operation called with an unaligned virt or phys returns   *)
(* an alignment error, never invokes the allocator and changes no table.   *)
(***************************************************************************)
C6_AlignmentBeforeTouch ==
    (last.op \in MapOps /\ (~Aligned(last.virt) \/ ~Aligned(last.phys)))
        => (/\ last.result \in {ERR_VIRT, ERR_PHYS}
            /\ last.allocs = 0
            /\ ~last.changed)

C6_Witness ==
    /\ last.op = "remap_address" /\ last.virt = VA /\ last.phys = PU
    /\ last.result = ERR_PHYS
    /\ Translate(VA).some

(***************************************************************************)
(* C7: an aligned virtual address that was never the virt argument of a    *)
(* successful install or remap translates to None.                         *)
(***************************************************************************)
C7_NeverInstalledIsNone ==
    \A v \in VAddrs : (Aligned(v) /\ ~installed[v].some) => Translate(v) = None

(***************************************************************************)
(* C7 as amended: an aligned virtual address whose four table indices      *)
(* differ from those of every address successfully installed or remapped   *)
(* translates to None.                                                     *)
(***************************************************************************)
C7_UnmappedIndicesIsNone ==
    \A v \in VAddrs :
        (Aligned(v) /\ \A u \in VAddrs : installed[u].some => Indices(u) # Indices(v))
            => Translate(v) = None

C7_Witness ==
    /\ last.op = "get_physical_address" /\ last.virt = VB /\ last.result = "None"
    /\ installed[VA].some /\ ~installed[VB].some

(***************************************************************************)
(* C8: when the allocator fails during an install or remap of v, the call  *)
(* returns the allocation error, nothing is written to the entry the       *)
(* descent stopped at, every table allocated during the call is linked on  *)
(* the path of v with all 512 slots absent, no mapping that existed        *)
(* changes its translation and v translates to None.                       *)
(***************************************************************************)
C8_AllocFailureEmptyTables ==
    [][AllocFailed(last'.branch) =>
        LET v == last'.virt
            path == Path(mem', v)
            fresh == {FrameAddr(k) : k \in (used + 1)..used'}
        IN  /\ last'.result = ERR_ALLOC
            /\ Len(path) = CASE last'.branch = "alloc_l3" -> 1
                             [] last'.branch = "alloc_l2" -> 2
                             [] last'.branch = "alloc_l1" -> 3
            /\ index(mem'[path[Len(path)]], PathIndex(v, Len(path))) = PageTableEntry_new
            /\ \A f \in fresh : /\ \E n \in 2..Len(path) : path[n] = f
                                /\ PresentSlots(mem'[f]) = {}
            /\ \A u \in VAddrs : get_physical_address(mem, ROOT, u).some =>
                   get_physical_address(mem', ROOT, u) = get_physical_address(mem, ROOT, u)
            /\ get_physical_address(mem', ROOT, v) = None]_vars

(***************************************************************************)
(* C8 as amended: as above, except that of the tables allocated during the *)
(* call only the one linked last has all 512 slots absent; a table linked  *)
(* before it has exactly one present slot, the link to the next table on   *)
(* the path of v.                                                          *)
(***************************************************************************)
C8_AllocFailureLinkedTables ==
    [][AllocFailed(last'.branch) =>
        LET v == last'.virt
            path == Path(mem', v)
            fresh == {FrameAddr(k) : k \in (used + 1)..used'}
        IN  /\ last'.result = ERR_ALLOC
            /\ Len(path) = CASE last'.branch = "alloc_l3" -> 1
                             [] last'.branch = "alloc_l2" -> 2
                             [] last'.branch = "alloc_l1" -> 3
            /\ index(mem'[path[Len(path)]], PathIndex(v, Len(path))) = PageTableEntry_new
            /\ \A f \in fresh :
                   \E n \in 2..Len(path) :
                       /\ path[n] = f
                       /\ PresentSlots(mem'[f]) =
                              IF n = Len(path) THEN {} ELSE {PathIndex(v, n)}
            /\ \A u \in VAddrs : get_physical_address(mem, ROOT, u).some =>
                   get_physical_address(mem', ROOT, u) = get_physical_address(mem, ROOT, u)
            /\ get_physical_address(mem', ROOT, v) = None]_vars

C8_Witness ==
    /\ last.branch = "alloc_l1" /\ last.allocs = 3 /\ last.result = ERR_ALLOC
    /\ Len(Path(mem, last.virt)) = 3
    /\ PresentSlots(mem[Path(mem, last.virt)[2]]) = {p3_index(last.virt)}

(***************************************************************************)
(* C9: after remap_address has overwritten the mapping v -> p with another *)
(* frame, the translation cache holds no entry of page v that names p.     *)
(***************************************************************************)
C9_RemapInvalidatesStale ==
    (last.op = "remap_address" /\ last.branch = "overwrite")
        => \A e \in tlb : ~(e.page = last.virt /\ e.frame = last.was.val)

(***************************************************************************)
(* C10: get_physical_address changes no table, creates no table and never  *)
(* invokes the allocator, whatever it returns.                             *)
(***************************************************************************)
C10_TranslateReadOnly ==
    [][last'.op = "get_physical_address" =>
          (mem' = mem /\ used' = used /\ last'.allocs = 0)]_vars

C10_Witness ==
    /\ last.op = "get_physical_address" /\ last.result = "Some" /\ last.val = P3
    /\ used = MaxTables

(***************************************************************************)
(* C11: no call turns a present slot of any table, intermediate or leaf,   *)
(* into an absent one, and a page that translates keeps translating,       *)
(* whether the call succeeds or fails.                                     *)
(***************************************************************************)
C11_NoPresentToAbsent ==
    [][mem' # mem =>
       /\ \A f \in DOMAIN mem :
            /\ f \in DOMAIN mem'
            /\ \A i \in PresentSlots(mem[f]) : is_present(index(mem'[f], i))
       /\ \A v \in VAddrs :
            get_physical_address(mem, ROOT, v).some
                => get_physical_address(mem', ROOT, v).some]_vars

\* a present leaf was rewritten by remap_address and the page still translates
C11_Witness ==
    /\ last.op = "remap_address" /\ last.branch = "overwrite"
    /\ last.was.some /\ Translate(last.virt).some

(***************************************************************************)
(* C12: after set_addr(a, f) with a 4096-aligned a, on an entry of any     *)
(* previous content, addr() is a, flags() is f, and is_present() holds     *)
(* exactly when f contains PRESENT.                                        *)
(***************************************************************************)
C12_CodecRoundTrip ==
    (pte.op = "set_addr" /\ Aligned(pte.addr))
        => /\ addr(pte.entry) = pte.addr
           /\ flags(pte.entry) = pte.flags
           /\ is_present(pte.entry) <=> contains(pte.flags, PRESENT)

\* x <= y
Leq64(x, y) ==
    \E k \in 0..6 : /\ \A j \in (k + 1)..6 : x[j] = y[j]
                    /\ k = 0 \/ x[k] < y[k]

(***************************************************************************)
(* C13: align_down and align_down_u64 of an address 4096*k + r, r below    *)
(* 4096, return 4096*k: a multiple of 4096, not greater than the address,  *)
(* and itself left as it is by align_down.                                 *)
(***************************************************************************)
C13_AlignDown ==
    (aligned.op \in {"align_down", "align_down_u64"})
        => /\ aligned.out = [aligned.val EXCEPT ![1] = 0]
           /\ Mod4096(aligned.out) = 0
           /\ Leq64(aligned.out, aligned.val)
           /\ align_down(aligned.out) = aligned.out
           /\ align_down_u64(aligned.out) = aligned.out

\* the last address of the last page: 0xffff_ffff_ffff_ffff
C13_Witness ==
    /\ aligned.op = "align_down_u64"
    /\ aligned.val = <<4095, 511, 0, 0, 511, 65535>>
    /\ aligned.out = <<0, 511, 0, 0, 511, 65535>>

(***************************************************************************)
(* C14: every one of the 512 slots of a table just constructed is absent   *)
(* with address 0, and so is, with no flag set, every slot of a table      *)
(* after clear(), whatever it held.                                        *)
(***************************************************************************)
C14_NewAndClearedAbsent ==
    (ptable.op \in {"new", "clear"})
        => \A i \in Slots :
               LET e == index(ptable.table, i)
               IN  /\ ~is_present(e)
                   /\ addr(e) = Zero
                   /\ ptable.op = "clear" => flags(e) = Zero

\* clear() of a table whose three written slots were all present
C14_Witness ==
    /\ ptable.op = "clear"
    /\ ptable.was = TableSlots

(***************************************************************************)
(* C15: a breakpoint raised once the IDT is loaded enters                  *)
(* breakpoint_handler, which returns: the kernel goes on at the            *)
(* instruction after the int3, neither panicked nor halted. The            *)
(* double-fault handler panics, and the page-fault handler halts and       *)
(* never returns.                                                          *)
(***************************************************************************)
C15_BreakpointResumes ==
    /\ [][(cpu.mode = "kernel" /\ cpu.idt_loaded /\ cpu'.trapped = cpu.rip
                               /\ cpu'.saved = cpu.rip + 1 /\ cpu'.mode # "kernel")
             => cpu'.mode = "breakpoint_handler"]_vars
    /\ [][cpu.mode = "breakpoint_handler"
             => (cpu'.mode = "kernel" /\ cpu'.rip = cpu.trapped + 1)]_vars
    /\ (cpu.mode = "breakpoint_handler") ~> (cpu.mode = "kernel")
    /\ [][cpu.mode = "double_fault_handler" => cpu'.mode = "panicked"]_vars
    /\ [][cpu.mode \in {"page_fault_handler", "page_fault_hlt"}
             => cpu'.mode = "page_fault_hlt"]_vars
    /\ [][cpu.mode = "panicked" => cpu'.mode = "panicked"]_vars

\* the kernel after its second breakpoint
C15_Witness ==
    /\ cpu.mode = "kernel" /\ cpu.idt_loaded
    /\ cpu.rip = cpu.trapped + 1 /\ cpu.saved = cpu.rip /\ cpu.trapped > 1

(***************************************************************************)
(* C16: a call of an install or remap operation invokes the allocator once *)
(* for each absent L4, L3 or L2 entry it reaches on the path of v and      *)
(* never for a present one: at most 3 times, 0 times when the path exists. *)
(* The tables already on the path, also those a failed call left, are the  *)
(* ones the call goes through.                                             *)
(***************************************************************************)
C16_LazyCreationAndReuse ==
    [][(last'.op \in MapOps /\ last'.branch # "align") =>
        \A before \in {Path(mem, last'.virt)} :
        \A after \in {IF mem' = mem THEN before ELSE Path(mem', last'.virt)} :
            LET absent == 4 - Len(before)
                created == used' - used
            IN  /\ last'.allocs <= 3
                /\ IF AllocFailed(last'.branch)
                   THEN last'.allocs = created + 1 /\ created < absent
                   ELSE last'.allocs = absent /\ created = absent
                /\ Len(after) = Len(before) + created
                /\ \A n \in 1..Len(before) : after[n] = before[n]]_vars

\* the L1 table alone was missing on the path of 0x1000: the L3 and L2
\* tables are those a call that failed on its third allocation had linked
C16_Witness ==
    /\ last.op \in MapOps /\ last.virt = VA
    /\ last.result = "Ok" /\ last.branch = "fresh" /\ last.allocs = 1

(***************************************************************************)
(* C17: from any state, for aligned v and p and any allocator, map_address *)
(* and remap_address return the same result and leave the same tables      *)
(* unless the L1 slot of v is present with an address other than p.        *)
(***************************************************************************)
C17_ModesDifferOnlyOnConflict ==
    \A c \in Calls, grant \in 0..MaxGrant :
        LET v == c[1]
            p == c[2]
            strict == map_address(mem, Allocator(used, grant, Zero), tlb, ROOT, v, p)
            remap == remap_address(mem, Allocator(used, grant, Zero), tlb, ROOT, v, p)
            path == Path(mem, v)
            conflict == /\ Len(path) = 4
                        /\ is_present(index(mem[path[4]], p1_index(v)))
                        /\ addr(index(mem[path[4]], p1_index(v))) # p
        IN  (Aligned(v) /\ Aligned(p) /\ ~conflict)
                => /\ strict.result = remap.result
                   /\ strict.mem = remap.mem
                   /\ strict.alloc = remap.alloc

\* remap_address found the slot holding p, where map_address returns Ok too
C17_Witness ==
    /\ last.op = "remap_address" /\ last.branch = "same" /\ ~last.changed
    /\ map_address(mem, Allocator(used, 0, Zero), tlb, ROOT, last.virt, last.phys).result
           = "Ok"

(***************************************************************************)
(* C18: a call of an install or remap operation for page v, successful or  *)
(* failed, leaves the translation of every aligned v2 that differs from v  *)
(* in one of the four table indices as it was.                             *)
(***************************************************************************)
C18_OtherPagesUnaffected ==
    [][(last'.op \in MapOps /\ mem' # mem) =>
        \A v2 \in VAddrs :
            (Aligned(v2) /\ Indices(v2) # Indices(last'.virt))
                => get_physical_address(mem', ROOT, v2)
                       = get_physical_address(mem, ROOT, v2)]_vars

\* 0x1000 was remapped to another frame while 0x2000, a slot of the same L1
\* table, stays mapped to 0x3000
C18_Witness ==
    /\ last.op = "remap_address" /\ last.branch = "overwrite" /\ last.virt = VA
    /\ Translate(VB) = Some(P3)

(***************************************************************************)
(* C19: sleep_if_idle tests the queue with interrupts disabled, halts only *)
(* on an empty queue and enables interrupts with the halt; whatever the    *)
(* interrupt handlers wake and whenever they run, the executor is never    *)
(* halted with an id in the queue and no interrupt pending to end the hlt. *)
(***************************************************************************)
C19_NoLostWakeup ==
    /\ pc \in {"is_empty", "sti_hlt"} => ~interrupts_enabled
    /\ pc = "sti_hlt" => task_queue = << >>
    /\ pc = "hlt" => interrupts_enabled
    /\ (pc = "hlt" /\ task_queue # << >>) => irq_pending # {}

\* halted with the interrupt pending that was raised while interrupts were off
C19_Witness ==
    /\ pc = "hlt" /\ interrupts_enabled
    /\ \E id \in irq_pending : id \in wakers

(***************************************************************************)
(* C20: a task whose poll has returned Ready is in neither tasks nor       *)
(* waker_cache and is never polled again; an id of it popped from the      *)
(* queue is skipped; after a pass of run_ready_tasks the keys of           *)
(* waker_cache are keys of tasks.                                          *)
(***************************************************************************)
C20_CompletedNeverPolled ==
    /\ [](/\ completed \cap tasks = {}
          /\ completed \cap waker_cache = {}
          /\ pc = "poll" => (task_id \in tasks /\ task_id \notin completed)
          /\ pc \in {"cli", "is_empty", "sti_hlt", "sti", "hlt", "run", "returned"}
                 => waker_cache \subseteq tasks)
    /\ [][(pc = "pop" /\ task_queue # << >> /\ Head(task_queue) \in completed)
             => pc' \in {"pop", "continue"}]_vars

\* an id pushed for a completed task has been popped and is skipped
C20_Witness ==
    /\ pc = "continue"
    /\ task_id \in completed
    /\ task_id \notin tasks

\* the ids the queue holds
Queued == {task_queue[n] : n \in 1..Len(task_queue)}

(***************************************************************************)
(* C21: once run() is called, an unfinished task whose id is in the queue  *)
(* is eventually polled unless STOP is set, also while other tasks wake    *)
(* themselves again and again; ids leave the queue in the order in which   *)
(* they were pushed. The queue stays below its capacity of 100 ids.        *)
(***************************************************************************)
C21_QueuedEventuallyPolled ==
    /\ \A id \in TaskIds :
           (/\ pc \notin {"setup", "poll", "panicked", "returned"}
            /\ id \in Queued /\ id \in tasks)
               ~> ((pc = "poll" /\ task_id = id) \/ STOP)
    /\ [][(pc = "pop" /\ pc' \in {"poll", "continue"})
             => (task_id' = Head(task_queue) /\ task_queue' = Tail(task_queue))]_vars
    /\ [][Len(task_queue') > Len(task_queue)
             => \E id \in TaskIds : task_queue' = Append(task_queue, id)]_vars
    /\ [][(pc # "poll" /\ pc' = "poll")
             => (pc = "pop" /\ task_queue # << >> /\ task_id' = Head(task_queue))]_vars

\* a task is polled with its own id queued again behind the id of another
\* unfinished task
C21_Witness ==
    /\ pc = "poll"
    /\ Len(task_queue) >= 2
    /\ task_queue[1] # task_id /\ task_queue[1] \in tasks
    /\ task_queue[Len(task_queue)] = task_id
    /\ ~STOP

====
